---- MODULE Spec2Model ----
(***************************************************************************)
(* Snowberry: a Snowflake-style ID generator (src/src/lib.rs).             *)
(*                                                                         *)
(* An ID is an i64 made of four bit fields, high to low:                   *)
(*     unix time (ms) | seed | soil | harvested_count                      *)
(*                                                                         *)
(* The source uses SEED_BITS = 5, SOIL_BITS = 5, HARVESTED_COUNT_BITS = 12 *)
(* in a 64-bit word, which leaves 41 timestamp bits below the sign bit.    *)
(* TLC's integers are 32 bits wide, so the model keeps the layout and the  *)
(* arithmetic (two's complement, shifts, masks) but scales the widths      *)
(* down; every width is a definition and the formulas are written against  *)
(* the names, never against the numbers.                                   *)
(***************************************************************************)
EXTENDS Integers, Sequences, FiniteSets, TLC

(***************************************************************************)
(* Field widths (scaled) and the other bounds of the model.                *)
(***************************************************************************)
\* lib.rs:4   pub const SEED_BITS: i64 = 5
SEED_BITS == 1
\* lib.rs:5   pub const SOIL_BITS: i64 = 5
SOIL_BITS == 1
\* lib.rs:6   pub const HARVESTED_COUNT_BITS: i64 = 12
HARVESTED_COUNT_BITS == 2
\* timestamp bits of the i64 below the sign bit (64 - 1 - 22 = 41 in the source)
TIME_BITS == 2
\* the largest millisecond a call or the clock uses; 2^TIME_BITS and above do
\* not fit the timestamp field
MaxUnixTime == 4
\* SystemTime ticks per millisecond (the source's SystemTime counts nanoseconds)
TicksPerMilli == 2
\* outcomes of the current millisecond that hist records beyond 2^C + 1
ExtraHist == 2

(***************************************************************************)
(* i64 arithmetic: two's complement in WORD_BITS bits.                     *)
(***************************************************************************)
WORD_BITS == 1 + TIME_BITS + HARVESTED_COUNT_BITS + SOIL_BITS + SEED_BITS

WORD == 2 ^ WORD_BITS

\* the i64 whose bit pattern is x modulo 2^WORD_BITS
wrap(x) == LET u == x % WORD IN IF u >= WORD \div 2 THEN u - WORD ELSE u

\* the bit pattern of the i64 x, as a natural number
unsigned(x) == x % WORD

RECURSIVE bitwise(_, _, _, _)
bitwise(f, a, b, n) ==
    IF n = 0 THEN 0
    ELSE f[a % 2, b % 2] + 2 * bitwise(f, a \div 2, b \div 2, n - 1)

Bit == {0, 1}

\* Rust's ^ on i64
BitXor(a, b) ==
    wrap(bitwise([x \in Bit, y \in Bit |-> (x + y) % 2],
                 unsigned(a), unsigned(b), WORD_BITS))

\* Rust's | on i64
BitOr(a, b) ==
    wrap(bitwise([x \in Bit, y \in Bit |-> IF x + y > 0 THEN 1 ELSE 0],
                 unsigned(a), unsigned(b), WORD_BITS))

\* Rust's & on i64
BitAnd(a, b) ==
    wrap(bitwise([x \in Bit, y \in Bit |-> x * y],
                 unsigned(a), unsigned(b), WORD_BITS))

\* Rust's << on i64: bits shifted past the top are lost, no panic for n < 64
Shl(a, n) == wrap(unsigned(a) * 2 ^ n)

(***************************************************************************)
(* The constants of lib.rs:8-15.                                           *)
(***************************************************************************)
MAX_SEED == BitXor(-1, Shl(-1, SEED_BITS))

MAX_SOIL == BitXor(-1, Shl(-1, SOIL_BITS))

SOIL_SHIFT == HARVESTED_COUNT_BITS

\* mutant of SEED_SHIFT: the seed is shifted onto the soil field
SEED_SHIFT_onto_soil == HARVESTED_COUNT_BITS

SEED_SHIFT == HARVESTED_COUNT_BITS + SEED_BITS

UNIX_TIME_SHIFT == HARVESTED_COUNT_BITS + SOIL_BITS + SEED_BITS

\* mutant of HARVESTED_COUNT_MASK: the mask is one bit wider than the field
HARVESTED_COUNT_MASK_one_bit_wider ==
    BitXor(-1, Shl(-1, HARVESTED_COUNT_BITS + 1))

HARVESTED_COUNT_MASK == BitXor(-1, Shl(-1, HARVESTED_COUNT_BITS))

(***************************************************************************)
(* Inputs.  A SystemTime is a number of ticks since UNIX_EPOCH; a negative *)
(* one lies before the epoch.                                              *)
(***************************************************************************)
MaxTick == (MaxUnixTime + 1) * TicksPerMilli - 1

SystemTimes == -1 .. MaxTick

\* arguments tried for Snowberry::new: the valid ones and one beyond each end
SeedArgs == -1 .. MAX_SEED + 1

SoilArgs == -1 .. MAX_SOIL + 1

\* the largest millisecond that fits the timestamp field below the sign bit
MaxFieldTime == 2 ^ TIME_BITS - 1

HistCap == 2 ^ HARVESTED_COUNT_BITS + 1 + ExtraHist

(***************************************************************************)
(* struct Snowberry (lib.rs:17-23) and its methods as pure operators.  A   *)
(* call yields the generator after the call together with what the caller *)
(* sees: kind "Ok" with an id, kind "Err" with a message, or kind "panic". *)
(***************************************************************************)
Snowberry(seed, soil, harvested_count, last_harvested_at) ==
    [seed |-> seed, soil |-> soil,
     harvested_count |-> harvested_count,
     last_harvested_at |-> last_harvested_at]

Outcome(self, kind, id, msg) ==
    [self |-> self, kind |-> kind, id |-> id, msg |-> msg]

\* mutant of new: the assertion on soil is missing
new_soil_unchecked(seed, soil) ==
    IF ~(0 <= seed /\ seed <= MAX_SEED)
    THEN Outcome(Snowberry(0, 0, 0, 0), "panic", 0,
                 "assertion failed: 0 <= seed && seed <= MAX_SEED")
    ELSE Outcome(Snowberry(Shl(seed, SEED_SHIFT), Shl(soil, SOIL_SHIFT), 0, 0),
                 "Ok", 0, "")

\* mutant of new: last_harvested_at starts before every millisecond
new_never_harvested(seed, soil) ==
    IF ~(0 <= seed /\ seed <= MAX_SEED)
    THEN Outcome(Snowberry(0, 0, 0, 0), "panic", 0,
                 "assertion failed: 0 <= seed && seed <= MAX_SEED")
    ELSE IF ~(0 <= soil /\ soil <= MAX_SOIL)
    THEN Outcome(Snowberry(0, 0, 0, 0), "panic", 0,
                 "assertion failed: 0 <= soil && soil <= MAX_SOIL")
    ELSE Outcome(Snowberry(Shl(seed, SEED_SHIFT), Shl(soil, SOIL_SHIFT), 0, -1),
                 "Ok", 0, "")

\* lib.rs:26-36.  A failed assertion produces no generator: self is a
\* placeholder that no action reads (pc = "aborted").
new(seed, soil) ==
    IF ~(0 <= seed /\ seed <= MAX_SEED)
    THEN Outcome(Snowberry(0, 0, 0, 0), "panic", 0,
                 "assertion failed: 0 <= seed && seed <= MAX_SEED")
    ELSE IF ~(0 <= soil /\ soil <= MAX_SOIL)
    THEN Outcome(Snowberry(0, 0, 0, 0), "panic", 0,
                 "assertion failed: 0 <= soil && soil <= MAX_SOIL")
    ELSE Outcome(Snowberry(Shl(seed, SEED_SHIFT), Shl(soil, SOIL_SHIFT), 0, 0),
                 "Ok", 0, "")

\* lib.rs:61-67, for a time at or after the epoch: whole milliseconds
to_unix_time(time) == time \div TicksPerMilli

\* lib.rs:62-64: duration_since(UNIX_EPOCH) is an Err before the epoch
before_epoch(time) == time < 0

\* mutant of berry_id: the timestamp is shifted by SEED_SHIFT
berry_id_time_on_seed(self, unix_time) ==
    BitOr(BitOr(BitOr(Shl(unix_time, SEED_SHIFT), self.seed), self.soil),
          self.harvested_count)

\* lib.rs:58: the returned expression
berry_id(self, unix_time) ==
    BitOr(BitOr(BitOr(Shl(unix_time, UNIX_TIME_SHIFT), self.seed), self.soil),
          self.harvested_count)

\* mutant of not_regressed: the assertion is missing
not_regressed_unchecked(self, unix_time) == TRUE

\* mutant of not_regressed: the assertion compares with the epoch
not_regressed_since_epoch(self, unix_time) == 0 <= unix_time

\* lib.rs:45: the condition of the assertion
not_regressed(self, unix_time) == self.last_harvested_at <= unix_time

\* mutant of harvest_from_time: a later millisecond does not reset the count
harvest_from_time_no_reset(self, time) ==
    IF before_epoch(time)
    THEN Outcome(self, "panic", 0,
                 "failed to generate unix time from SystemTime")
    ELSE
    LET unix_time == to_unix_time(time) IN
    IF ~not_regressed(self, unix_time)
    THEN Outcome(self, "panic", 0,
                 "assertion failed: self.last_harvested_at <= unix_time")
    ELSE IF unix_time = self.last_harvested_at
    THEN LET counted ==
                 [self EXCEPT !.harvested_count =
                     BitAnd(self.harvested_count + 1, HARVESTED_COUNT_MASK)]
         IN  IF counted.harvested_count = 0
             THEN Outcome(counted, "Err", 0, "snowberry has harvested all")
             ELSE LET done == [counted EXCEPT !.last_harvested_at = unix_time]
                  IN  Outcome(done, "Ok", berry_id(done, unix_time), "")
    ELSE LET done == [self EXCEPT !.last_harvested_at = unix_time]
         IN  Outcome(done, "Ok", berry_id(done, unix_time), "")

\* mutant of harvest_from_time: the exhaustion error does not store the
\* wrapped count
harvest_from_time_err_keeps_count(self, time) ==
    IF before_epoch(time)
    THEN Outcome(self, "panic", 0,
                 "failed to generate unix time from SystemTime")
    ELSE
    LET unix_time == to_unix_time(time) IN
    IF ~not_regressed(self, unix_time)
    THEN Outcome(self, "panic", 0,
                 "assertion failed: self.last_harvested_at <= unix_time")
    ELSE IF unix_time = self.last_harvested_at
    THEN LET counted ==
                 [self EXCEPT !.harvested_count =
                     BitAnd(self.harvested_count + 1, HARVESTED_COUNT_MASK)]
         IN  IF counted.harvested_count = 0
             THEN Outcome(self, "Err", 0, "snowberry has harvested all")
             ELSE LET done == [counted EXCEPT !.last_harvested_at = unix_time]
                  IN  Outcome(done, "Ok", berry_id(done, unix_time), "")
    ELSE LET done == [self EXCEPT !.harvested_count = 0,
                                  !.last_harvested_at = unix_time]
         IN  Outcome(done, "Ok", berry_id(done, unix_time), "")

\* lib.rs:43-59
harvest_from_time(self, time) ==
    IF before_epoch(time)
    THEN Outcome(self, "panic", 0,
                 "failed to generate unix time from SystemTime")
    ELSE
    LET unix_time == to_unix_time(time) IN
    IF ~not_regressed(self, unix_time)
    THEN Outcome(self, "panic", 0,
                 "assertion failed: self.last_harvested_at <= unix_time")
    ELSE IF unix_time = self.last_harvested_at
    THEN LET counted ==
                 [self EXCEPT !.harvested_count =
                     BitAnd(self.harvested_count + 1, HARVESTED_COUNT_MASK)]
         IN  IF counted.harvested_count = 0
             THEN Outcome(counted, "Err", 0, "snowberry has harvested all")
             ELSE LET done == [counted EXCEPT !.last_harvested_at = unix_time]
                  IN  Outcome(done, "Ok", berry_id(done, unix_time), "")
    ELSE LET done == [self EXCEPT !.harvested_count = 0,
                                  !.last_harvested_at = unix_time]
         IN  Outcome(done, "Ok", berry_id(done, unix_time), "")

\* mutant of wait_for_next_harvest: the loop also returns a reading in the
\* millisecond of last_harvested_at
wait_for_next_harvest_same_milli(self, time) ==
    IF before_epoch(time) THEN "panic"
    ELSE IF self.last_harvested_at <= to_unix_time(time) THEN "return"
    ELSE "sleep"

\* mutant of wait_for_next_harvest: the loop sleeps in the millisecond of
\* last_harvested_at only when the sequence is used up
wait_for_next_harvest_if_exhausted(self, time) ==
    IF before_epoch(time) THEN "panic"
    ELSE IF self.last_harvested_at < to_unix_time(time) THEN "return"
    ELSE IF /\ self.last_harvested_at = to_unix_time(time)
            /\ self.harvested_count < HARVESTED_COUNT_MASK THEN "return"
    ELSE "sleep"

\* mutant of wait_for_next_harvest: the loop returns only a reading at least
\* two milliseconds after last_harvested_at
wait_for_next_harvest_skips_one(self, time) ==
    IF before_epoch(time) THEN "panic"
    ELSE IF self.last_harvested_at + 1 < to_unix_time(time) THEN "return"
    ELSE "sleep"

\* mutant of wait_for_next_harvest: the loop returns whatever the clock reads
wait_for_next_harvest_no_wait(self, time) ==
    IF before_epoch(time) THEN "panic"
    ELSE "return"

\* lib.rs:69-79, one iteration of the loop on the clock reading time:
\* "return" hands time back, "sleep" goes round again, and a reading before
\* the epoch panics in to_unix_time
wait_for_next_harvest(self, time) ==
    IF before_epoch(time) THEN "panic"
    ELSE IF self.last_harvested_at < to_unix_time(time) THEN "return"
    ELSE "sleep"

\* lib.rs:38-41, once wait_for_next_harvest has returned time
harvest(self, time) ==
    LET r == harvest_from_time(self, time) IN
    IF r.kind = "Err"
    THEN Outcome(r.self, "panic", 0, "harvest failed to wait next")
    ELSE r

(***************************************************************************)
(* State.                                                                  *)
(*   berry    the generator (struct Snowberry)                             *)
(*   pc       "idle": no call in progress; "sleeping": inside harvest(),   *)
(*            in thread::sleep of wait_for_next_harvest; "aborted": new    *)
(*            panicked and there is no generator                           *)
(* History, written by the calls and read by none of them:                 *)
(*   planted  the arguments given to Snowberry::new                        *)
(*   res      what the most recent call gave its caller                    *)
(*   hist     the outcomes, in call order, of the calls that returned Ok   *)
(*            or Err at the millisecond last_harvested_at (the first       *)
(*            HistCap of them)                                             *)
(*   fresh    every call that returned so far was made at one and the same *)
(*            millisecond                                                  *)
(*   latest   the id of the most recent Ok, if any (<<>> or <<id>>)        *)
(* The clock is an input: every SystemTime::now() reads any SystemTime,    *)
(* later or earlier than the reading before.                               *)
(***************************************************************************)
VARIABLES berry, pc, planted, res, hist, fresh, latest

vars == <<berry, pc, planted, res, hist, fresh, latest>>

\* unix_time: the millisecond of the time the call was given or read (-1
\* before the epoch)
Result(op, kind, id, msg, time, slept) ==
    [op |-> op, kind |-> kind, id |-> id, msg |-> msg,
     unix_time |-> IF before_epoch(time) THEN -1 ELSE to_unix_time(time),
     slept |-> slept]

\* the generator is constructed from arguments drawn from SeedArgs x SoilArgs
Init ==
    \E seed \in SeedArgs, soil \in SoilArgs :
        \E r \in {new(seed, soil)} :
        /\ planted = [seed |-> seed, soil |-> soil]
        /\ berry = r.self
        /\ pc = IF r.kind = "Ok" THEN "idle" ELSE "aborted"
        /\ res = Result("new", r.kind, 0, r.msg, 0, FALSE)
        /\ hist = <<>>
        /\ fresh = TRUE
        /\ latest = <<>>

\* the history after a call with outcome r (a panic returns nothing)
Returned(op, r, time, slept) ==
    LET advanced == r.self.last_harvested_at # berry.last_harvested_at
        entry == [kind |-> r.kind, id |-> r.id]
    IN
    /\ res' = Result(op, r.kind, r.id, r.msg, time, slept)
    /\ latest' = IF r.kind = "Ok" THEN <<r.id>> ELSE latest
    /\ IF r.kind = "panic"
       THEN UNCHANGED <<hist, fresh>>
       ELSE /\ hist' = IF advanced THEN <<entry>>
                       ELSE IF Len(hist) < HistCap THEN Append(hist, entry)
                       ELSE hist
            /\ fresh' = IF hist = <<>> THEN TRUE ELSE fresh /\ ~advanced

\* a call of harvest_from_time(&time)
HarvestFromTime(time) ==
    /\ pc = "idle"
    /\ \E r \in {harvest_from_time(berry, time)} :
           /\ berry' = r.self
           /\ Returned("harvest_from_time", r, time, FALSE)
    /\ UNCHANGED <<pc, planted>>

\* one iteration of the loop of wait_for_next_harvest inside harvest(), with
\* SystemTime::now() reading time, and, when the loop returns, the rest of
\* harvest()
Iterate(time, slept) ==
    LET w == wait_for_next_harvest(berry, time) IN
    IF w = "sleep"
    THEN /\ pc' = "sleeping"
         /\ UNCHANGED <<berry, planted, res, hist, fresh, latest>>
    ELSE \E r \in {IF w = "panic"
                    THEN Outcome(berry, "panic", 0,
                                 "failed to generate unix time from SystemTime")
                    ELSE harvest(berry, time)} :
             /\ pc' = "idle"
             /\ berry' = r.self
             /\ Returned("harvest", r, time, slept)
             /\ UNCHANGED planted

\* a call of harvest(): the first reading of the clock
Harvest(time) ==
    /\ pc = "idle"
    /\ Iterate(time, FALSE)

\* harvest() wakes from thread::sleep and reads the clock again
HarvestRetry(time) ==
    /\ pc = "sleeping"
    /\ Iterate(time, TRUE)

Next ==
    \/ \E time \in SystemTimes : HarvestFromTime(time)
    \/ \E time \in SystemTimes : Harvest(time)
    \/ \E time \in SystemTimes : HarvestRetry(time)

Spec == Init /\ [][Next]_vars

\* harvest() leaves thread::sleep and the loop of wait_for_next_harvest
\* (lib.rs:70-78), which a reading that passes the loop's test lets it do
ClockHasPassed ==
    /\ pc = "sleeping"
    /\ \E time \in SystemTimes : wait_for_next_harvest(berry, time) = "return"
    /\ pc' = "idle"

\* the clock goes on: a harvest() that sleeps is woken (thread::sleep ends
\* after 1 ms) and in the end reads a time that takes it out of the loop, as
\* long as the model has one after last_harvested_at (MaxUnixTime is the
\* last millisecond)
SpecLive == Spec /\ WF_pc(ClockHasPassed)

(***************************************************************************)
(* Reading an id back, by the layout of the bit fields (division and       *)
(* remainder, not the operators the generator uses).                       *)
(***************************************************************************)
id_sequence(id) == id % 2 ^ HARVESTED_COUNT_BITS

id_secondary(id) == (id \div 2 ^ HARVESTED_COUNT_BITS) % 2 ^ SOIL_BITS

id_primary(id) ==
    (id \div 2 ^ (SOIL_BITS + HARVESTED_COUNT_BITS)) % 2 ^ SEED_BITS

id_timestamp(id) ==
    id \div 2 ^ (SEED_BITS + SOIL_BITS + HARVESTED_COUNT_BITS)

\* the most recent call was a mint operation that returned an id
Minted == res.op \in {"harvest", "harvest_from_time"} /\ res.kind = "Ok"

\* this step is a call that returns (a step into thread::sleep returns nothing)
Returns == pc' = "idle"

OkEntries == {i \in DOMAIN hist : hist[i].kind = "Ok"}

SequenceSpace == 2 ^ HARVESTED_COUNT_BITS

(***************************************************************************)
(* C1.  One generator, timestamps that never decrease: no two successful   *)
(* calls return the same id, also after a call has failed with the         *)
(* exhaustion error and the caller goes on at the same millisecond.        *)
(* Stated on the calls of one millisecond (hist), where the sequence field *)
(* is all that tells two ids apart.                                        *)
(***************************************************************************)
C1_NoIdIssuedTwice ==
    \A i \in OkEntries : \A j \in OkEntries :
        i # j => hist[i].id # hist[j].id

(***************************************************************************)
(* C2.  Exhaustion boundary: on a fresh generator, of the calls made at    *)
(* one timestamp T (T = 0 included) the first 2^C succeed and call number  *)
(* 2^C + 1 fails with the exhaustion error.                                *)
(***************************************************************************)
C2_ExhaustionBoundary ==
    fresh =>
        /\ \A i \in DOMAIN hist : i <= SequenceSpace => hist[i].kind = "Ok"
        /\ Len(hist) > SequenceSpace => hist[SequenceSpace + 1].kind = "Err"

(***************************************************************************)
(* C3.  The ids returned by successive successful calls of one generator   *)
(* are strictly increasing, whatever failed calls lie in between, for      *)
(* timestamps that fit the timestamp field.                                *)
(***************************************************************************)
C3_IdsStrictlyIncrease ==
    [][(/\ Returns
        /\ res'.kind = "Ok"
        /\ res'.unix_time <= MaxFieldTime
        /\ latest # <<>>) => latest[1] < res'.id]_vars

(***************************************************************************)
(* C4.  On a fresh generator, N <= 2^C calls at one timestamp T return ids *)
(* whose sequence fields are 0, 1, ..., N-1 in call order and whose other  *)
(* bits are all the same.                                                  *)
(***************************************************************************)
C4_SequenceCountsFromZero ==
    fresh =>
        \A i \in DOMAIN hist : i <= SequenceSpace =>
            /\ hist[i].kind = "Ok"
            /\ id_sequence(hist[i].id) = i - 1
            /\ hist[i].id - id_sequence(hist[i].id)
                   = hist[1].id - id_sequence(hist[1].id)

(***************************************************************************)
(* C5.  Two generators constructed with different (seed, soil) pairs never *)
(* return the same id.  The first generator is the one of the state; the   *)
(* second is any generator new(p, s) with another pair, in any state and   *)
(* called at any time: what it returns is berry_id of its fields.          *)
(***************************************************************************)
IdsOfGenerator ==
    [p \in 0 .. MAX_SEED, s \in 0 .. MAX_SOIL |->
        {berry_id(Snowberry(new(p, s).self.seed, new(p, s).self.soil, c, t), t) :
            c \in 0 .. HARVESTED_COUNT_MASK, t \in 0 .. MaxUnixTime}]

C5_OtherPairOtherIds ==
    Minted =>
        \A p \in 0 .. MAX_SEED, s \in 0 .. MAX_SOIL :
            <<p, s>> # <<planted.seed, planted.soil>>
                => res.id \notin IdsOfGenerator[p, s]

\* an id of the generator (MAX_SEED, 0) with every sequence bit set: the
\* generator (0, MAX_SOIL) returns ids with the same timestamp and sequence
C5_Witness ==
    /\ Minted
    /\ planted = [seed |-> MAX_SEED, soil |-> 0]
    /\ id_sequence(res.id) = HARVESTED_COUNT_MASK
    /\ res.id \in IdsOfGenerator[planted.seed, planted.soil]

(***************************************************************************)
(* C6.  harvest() never surfaces the exhaustion error: whatever calls came *)
(* before and whatever the clock reads, the harvest_from_time call inside  *)
(* harvest() returns Ok.  (harvest() panics only in to_unix_time, when the *)
(* clock reads a time before the epoch.)                                   *)
(***************************************************************************)
C6_HarvestNeverExhausted ==
    res.op = "harvest" =>
        \/ res.kind = "Ok"
        \/ /\ res.kind = "panic"
           /\ res.unix_time = -1
           /\ res.msg = "failed to generate unix time from SystemTime"

\* harvest() slept and then returned an id, for the largest millisecond that
\* fits the timestamp field
C6_Witness ==
    /\ res.op = "harvest"
    /\ res.kind = "Ok"
    /\ res.slept
    /\ res.unix_time = MaxFieldTime

(***************************************************************************)
(* C7.  As claimed: harvest() waits only when the generator has exhausted  *)
(* the sequence space of the current millisecond; while the clock stays    *)
(* within the millisecond of the last id, a harvest() call made before 2^C *)
(* ids were returned for it returns without sleeping.                      *)
(***************************************************************************)
C7_WaitsOnlyWhenExhausted ==
    [][\A time \in SystemTimes :
          (/\ res.op = "harvest"
           /\ res.kind = "Ok"
           /\ ~before_epoch(time)
           /\ to_unix_time(time) = berry.last_harvested_at
           /\ Cardinality(OkEntries) < SequenceSpace
           /\ Harvest(time)) => pc' = "idle"]_vars

(***************************************************************************)
(* C7, amended.  harvest() waits whenever the clock's millisecond is not   *)
(* strictly greater than last_harvested_at, exhausted or not: it returns   *)
(* an id only for a reading later than last_harvested_at, which makes the  *)
(* id the first of its millisecond, and changes nothing while it waits.    *)
(* While the clock stays within one millisecond at most one harvest() call *)
(* returns an id for it.                                                   *)
(***************************************************************************)
C7_WaitsUntilClockPassesLast ==
    [][/\ pc' = "sleeping" => (berry' = berry /\ res' = res /\ hist' = hist)
       /\ (Returns /\ res'.op = "harvest" /\ res'.kind = "Ok") =>
             /\ res'.unix_time > berry.last_harvested_at
             /\ hist' = <<[kind |-> "Ok", id |-> res'.id]>>]_vars

\* harvest() sleeps although the only id of the millisecond so far is the one
\* the harvest() call before it returned
C7_Witness ==
    /\ pc = "sleeping"
    /\ res.op = "harvest"
    /\ res.kind = "Ok"
    /\ Cardinality(OkEntries) = 1
    /\ berry.harvested_count = 0

(***************************************************************************)
(* C8.  harvest_from_time with a timestamp strictly earlier than           *)
(* last_harvested_at panics on the assertion: it returns neither Ok nor    *)
(* Err, and harvested_count and last_harvested_at keep their values.       *)
(***************************************************************************)
C8_EarlierTimestampAborts ==
    [][(/\ Returns
        /\ res'.op = "harvest_from_time"
        /\ 0 <= res'.unix_time
        /\ res'.unix_time < berry.last_harvested_at) =>
             /\ res'.kind = "panic"
             /\ res'.msg = "assertion failed: self.last_harvested_at <= unix_time"
             /\ berry' = berry
             /\ latest' = latest]_vars

\* the call was given a millisecond before the last one, after ids had been
\* counted in that last millisecond
C8_Witness ==
    /\ res.op = "harvest_from_time"
    /\ res.kind = "panic"
    /\ 0 <= res.unix_time
    /\ res.unix_time < berry.last_harvested_at
    /\ berry.harvested_count > 0

(***************************************************************************)
(* C9.  Snowberry::new(seed, soil) fails exactly when seed is outside      *)
(* [0, 2^P - 1] or soil is outside [0, 2^S - 1]; otherwise the generator   *)
(* starts with sequence 0 and last emit time 0, its identity fields being  *)
(* the arguments moved to bit positions S+C and C.                         *)
(***************************************************************************)
C9_ConstructionChecksRanges ==
    LET bad == \/ planted.seed < 0 \/ planted.seed > 2 ^ SEED_BITS - 1
               \/ planted.soil < 0 \/ planted.soil > 2 ^ SOIL_BITS - 1
    IN  /\ (pc = "aborted") <=> bad
        /\ res.op = "new" =>
              /\ (res.kind = "panic") <=> bad
              /\ (res.kind = "Ok") <=> ~bad
              /\ ~bad => berry =
                    Snowberry(planted.seed * 2 ^ (SOIL_BITS + HARVESTED_COUNT_BITS),
                              planted.soil * 2 ^ HARVESTED_COUNT_BITS, 0, 0)

\* construction refused a soil one above the largest, with a valid seed
C9_Witness ==
    /\ pc = "aborted"
    /\ res.op = "new"
    /\ res.kind = "panic"
    /\ planted.seed = 2 ^ SEED_BITS - 1
    /\ planted.soil = 2 ^ SOIL_BITS

(***************************************************************************)
(* C10.  Round trip: an id returned for a timestamp within the timestamp   *)
(* field decodes to the generator's primary and secondary id, to the       *)
(* millisecond of the call and to the sequence the generator holds; it is  *)
(* the sum of the four fields, each at its position.                       *)
(***************************************************************************)
C10_RoundTrip ==
    (Minted /\ res.unix_time <= MaxFieldTime) =>
        /\ id_primary(res.id) = planted.seed
        /\ id_secondary(res.id) = planted.soil
        /\ id_timestamp(res.id) = res.unix_time
        /\ id_sequence(res.id) = berry.harvested_count
        /\ res.id = res.unix_time
                        * 2 ^ (SEED_BITS + SOIL_BITS + HARVESTED_COUNT_BITS)
                    + planted.seed * 2 ^ (SOIL_BITS + HARVESTED_COUNT_BITS)
                    + planted.soil * 2 ^ HARVESTED_COUNT_BITS
                    + berry.harvested_count

\* an id with every bit of every field set
C10_Witness ==
    /\ Minted
    /\ res.unix_time = MaxFieldTime
    /\ planted = [seed |-> 2 ^ SEED_BITS - 1, soil |-> 2 ^ SOIL_BITS - 1]
    /\ berry.harvested_count = 2 ^ HARVESTED_COUNT_BITS - 1
    /\ res.id = 2 ^ (WORD_BITS - 1) - 1

(***************************************************************************)
(* C11.  Sequence reset on millisecond advance: harvest_from_time called   *)
(* with a timestamp strictly greater than last_harvested_at succeeds, sets *)
(* harvested_count to 0 and returns an id whose sequence field is 0,       *)
(* whatever the count was before (2^C - 1 and the state an exhaustion      *)
(* error leaves included).                                                 *)
(***************************************************************************)
C11_LaterMillisecondResets ==
    [][(/\ Returns
        /\ res'.op = "harvest_from_time"
        /\ res'.unix_time > berry.last_harvested_at) =>
             /\ res'.kind = "Ok"
             /\ berry'.harvested_count = 0
             /\ berry'.last_harvested_at = res'.unix_time
             /\ id_sequence(res'.id) = 0]_vars

\* harvest_from_time moved on to a later millisecond after calls at an
\* earlier one and returned the first id of the new millisecond
C11_Witness ==
    /\ res.op = "harvest_from_time"
    /\ res.kind = "Ok"
    /\ ~fresh
    /\ hist = <<[kind |-> "Ok", id |-> res.id]>>
    /\ berry.harvested_count = 0
    /\ res.unix_time = MaxFieldTime

(***************************************************************************)
(* C12.  Once harvest_from_time has failed with the exhaustion error at a  *)
(* millisecond T, every later call at T fails too: no id is returned for T *)
(* until a call with a greater timestamp is made.                          *)
(***************************************************************************)
C12_ExhaustedMillisecondStaysExhausted ==
    \A i \in DOMAIN hist : \A j \in DOMAIN hist :
        (i < j /\ hist[i].kind = "Err") => hist[j].kind = "Err"

(***************************************************************************)
(* C13.  After harvest_from_time has failed with the exhaustion error for  *)
(* timestamp T: harvested_count = 0, last_harvested_at = T, and the        *)
(* identity fields are what construction made them.                        *)
(***************************************************************************)
C13_StateAfterExhaustion ==
    res.kind = "Err" =>
        /\ res.op = "harvest_from_time"
        /\ res.msg = "snowberry has harvested all"
        /\ berry.harvested_count = 0
        /\ berry.last_harvested_at = res.unix_time
        /\ berry.seed = planted.seed * 2 ^ (SOIL_BITS + HARVESTED_COUNT_BITS)
        /\ berry.soil = planted.soil * 2 ^ HARVESTED_COUNT_BITS

\* exhaustion at a millisecond after the first, both identity fields non-zero
C13_Witness ==
    /\ res.kind = "Err"
    /\ res.unix_time > 0
    /\ planted.seed > 0
    /\ planted.soil > 0
    /\ Cardinality(OkEntries) = SequenceSpace

(***************************************************************************)
(* C14.  Liveness of the wait loop: when the clock comes to read a         *)
(* millisecond greater than last_harvested_at, a harvest() call that waits *)
(* returns an id (it panics instead if the clock reads a time before the   *)
(* epoch); as long as it waits it changes nothing of the generator, and it *)
(* returns for no reading at or before last_harvested_at.                  *)
(***************************************************************************)
C14_WaitEnds ==
    /\ (pc = "sleeping" /\ berry.last_harvested_at < MaxUnixTime)
           ~> (/\ pc = "idle"
               /\ res.op = "harvest"
               /\ res.slept
               /\ (res.kind = "Ok" \/ res.unix_time = -1))
    /\ [][/\ pc' = "sleeping" => berry' = berry
          /\ (Returns /\ res'.op = "harvest") =>
                \/ res'.unix_time = -1
                \/ berry.last_harvested_at < res'.unix_time]_vars

\* harvest() slept and then returned the id of the millisecond right after
\* last_harvested_at
C14_Witness ==
    /\ pc = "idle"
    /\ res.op = "harvest"
    /\ res.kind = "Ok"
    /\ res.slept
    /\ ~fresh
    /\ res.unix_time = 1

C16_IdsArePositive ==
    (Minted /\ res.unix_time <= MaxFieldTime) => res.id > 0

\* the smallest id there is: identity (0, 0) at millisecond 0, where the
\* first call already counts to 1
C16_Witness ==
    /\ Minted
    /\ planted = [seed |-> 0, soil |-> 0]
    /\ res.unix_time = 0
    /\ hist = <<[kind |-> "Ok", id |-> 1]>>

(***************************************************************************)
(* C17.  last_harvested_at never decreases: a harvest_from_time or         *)
(* harvest call that returns an id or fails with exhaustion leaves it      *)
(* equal to the call's millisecond, which is not before its previous       *)
(* value; a call that panics and a harvest() that sleeps leave it as it    *)
(* was.                                                                    *)
(***************************************************************************)
C17_LastHarvestedAtNeverDecreases ==
    [][/\ berry.last_harvested_at <= berry'.last_harvested_at
       /\ (Returns /\ res'.kind \in {"Ok", "Err"}) =>
              /\ berry'.last_harvested_at = res'.unix_time
              /\ berry.last_harvested_at <= res'.unix_time
       /\ (Returns /\ res'.kind = "panic") =>
              berry'.last_harvested_at = berry.last_harvested_at
       /\ pc' = "sleeping" =>
              berry'.last_harvested_at = berry.last_harvested_at]_vars

\* a second id at the last millisecond of the model, which the generator
\* reached from an earlier one
C17_Witness ==
    /\ res.op = "harvest_from_time"
    /\ res.kind = "Ok"
    /\ ~fresh
    /\ berry.last_harvested_at = MaxUnixTime
    /\ berry.harvested_count = 1

(***************************************************************************)
(* C18.  In every state of a constructed generator harvested_count lies in *)
(* [0, 2^C - 1] and the fields seed and soil hold what construction put    *)
(* there, the arguments moved to bit positions S+C and C: no call changes  *)
(* the identity fields.                                                    *)
(***************************************************************************)
C18_CountInRangeIdentityKept ==
    pc # "aborted" =>
        /\ berry.harvested_count \in 0 .. 2 ^ HARVESTED_COUNT_BITS - 1
        /\ berry.seed = planted.seed * 2 ^ (SOIL_BITS + HARVESTED_COUNT_BITS)
        /\ berry.soil = planted.soil * 2 ^ HARVESTED_COUNT_BITS

\* the counter at its largest value, for the largest identity, after the
\* generator has moved on from its first millisecond
C18_Witness ==
    /\ berry.harvested_count = 2 ^ HARVESTED_COUNT_BITS - 1
    /\ planted = [seed |-> 2 ^ SEED_BITS - 1, soil |-> 2 ^ SOIL_BITS - 1]
    /\ ~fresh
    /\ res.kind = "Ok"

(***************************************************************************)
(* C19.  Every id that harvest() returns has sequence field 0 and the      *)
(* timestamp of a millisecond after the value last_harvested_at had before *)
(* the call: harvest() takes the branch that resets the count, never the   *)
(* one that increments it, and its id is the first of its millisecond.     *)
(***************************************************************************)
C19_HarvestIdsHaveSequenceZero ==
    [][(/\ Returns
        /\ res'.op = "harvest"
        /\ res'.kind = "Ok") =>
             /\ id_sequence(res'.id) = 0
             /\ berry'.harvested_count = 0
             /\ berry.last_harvested_at < res'.unix_time
             /\ berry'.last_harvested_at = res'.unix_time
             /\ res'.unix_time <= MaxFieldTime =>
                    /\ id_timestamp(res'.id) = res'.unix_time
                    /\ berry.last_harvested_at < id_timestamp(res'.id)
             /\ OkEntries' = {1}]_vars

\* harvest() returns at once, for a millisecond after the one in which
\* harvest_from_time had counted ids
C19_Witness ==
    /\ pc = "idle"
    /\ res.op = "harvest"
    /\ res.kind = "Ok"
    /\ ~res.slept
    /\ ~fresh
    /\ res.unix_time = MaxFieldTime
    /\ id_sequence(res.id) = 0

====
